---------------------------- MODULE Spec2Model ----------------------------
(***************************************************************************)
(* Model of the geography quiz game (src/App.tsx): the session state       *)
(* machine held in the React state `gameState`, the scoring function, the  *)
(* simulated opponent (aiAnsweredRef / aiTriggerTimeRef) and the timers    *)
(* (the 1 s interval of the timer effect, the 1.5 s post-reveal timeout    *)
(* that calls handleNext), and the leaderboard kept in localStorage with   *)
(* its weekly reset.                                                       *)
(*                                                                         *)
(* One action is one event of the browser's single-threaded event loop:    *)
(* the handler (or timer callback), the state update it queues, and the    *)
(* effects React runs after the resulting render (the opponent-init effect *)
(* of lines 289-297 and the timer effect of lines 447-479), including the  *)
(* state update the timer effect itself queues.                            *)
(*                                                                         *)
(* Times of the opponent trigger are kept in half seconds (the delays of   *)
(* AI_CONFIG are multiples of 0.5 s); timeLeft is in whole seconds.        *)
(***************************************************************************)
EXTENDS Integers, Sequences, FiniteSets, TLC

VARIABLES
    gameState,        \* useState<GameState>, App.tsx 184-200
    activeQuestions,  \* useState<Question[]>, App.tsx 182
    aiAnsweredRef,    \* useRef(false), App.tsx 216
    aiTriggerTimeRef, \* useRef(0), App.tsx 217, in half seconds
    pendingNext,      \* the pending setTimeout(() => handleNext(), 1500), oldest first
    playerName,       \* useState(''), App.tsx 203
    isScoreSaved,     \* useState(false), App.tsx 204
    leaderboard,      \* the item localStorage[LEADERBOARD_KEY]
    lastReset,        \* the item localStorage[LAST_RESET_KEY], <<>> when absent
    now,              \* the clock read by new Date() and Date.now()
    quizData,         \* the question bank QUIZ_DATA loaded at startup
    pendingLeaderboard, \* number of pending setTimeout(..., 500) of handleSaveScore
    questionLog,      \* history of the current question (not program state)
    gamesStarted,     \* number of games started so far (not program state)
    pveGamesStarted,  \* number of pve games among them (not program state)
    scoring,          \* arguments and result of one call of calculateNewScoreState
    selector          \* argument and result of one call of getWeightedQuestions

vars == <<gameState, activeQuestions, aiAnsweredRef, aiTriggerTimeRef, pendingNext,
          playerName, isScoreSaved, leaderboard, pendingLeaderboard, questionLog,
          gamesStarted, pveGamesStarted, scoring, selector, lastReset, now,
          quizData>>

-----------------------------------------------------------------------------
(* Bounds of the model *)

\* questions per game in the model (the program plays 20)
MaxQuestions == 2

\* post-reveal timeouts that may be pending at the same time
MaxPendingNext == 2

\* games started in one run of the program
MaxGames == 2

\* pve games started in one run of the program
MaxPveGames == 1

\* games that are played: in the games started after these the model lets
\* only the pending timeouts, the pause key and the hint key act (no tick, no
\* click on the playing screen, no exit)
MaxPlayedGames == 1

\* options of a question in the model (the program's questions have 4)
MaxOptions == 2

\* inputs of the scoring function: scores are k*25 for k in -MaxScoreSteps..MaxScoreSteps
MaxScoreSteps == 6

\* inputs of the scoring function: combos 0..MaxCombo
MaxCombo == 3

\* inputs of the question selector: banks of up to MaxBank questions
MaxBank == 4

\* inputs of the question selector: countries 1..MaxCountries
MaxCountries == 3

\* the clock counts 1/UnitsPerDay of a day
UnitsPerDay == 2

\* days the clock covers, from time 0
MaxDays == 2

-----------------------------------------------------------------------------
(* Constants of the program *)

GAME_DURATION_SECONDS == 10

QUESTIONS_PER_GAME == MaxQuestions

MAX_LEADERBOARD_ENTRIES == 10

\* setTimeout(() => handleNext(), 1500)
NEXT_DELAY_MS == 1500

\* setInterval(..., 1000)
TICK_INTERVAL_MS == 1000

\* setTimeout(..., 500) of handleSaveScore
LEADERBOARD_DELAY_MS == 500

\* playerName.trim().substring(0, 10), and maxLength={10} of the name input
MAX_NAME_LENGTH == 10

\* delays in half seconds, accuracy in percent
AI_CONFIG ==
    <<[accuracy |-> 50, minDelay |-> 12, maxDelay |-> 20],
      [accuracy |-> 65, minDelay |-> 10, maxDelay |-> 16],
      [accuracy |-> 75, minDelay |-> 7,  maxDelay |-> 12],
      [accuracy |-> 85, minDelay |-> 4,  maxDelay |-> 8]>>

Difficulty == 1..4

GameMode == {"single", "pve"}

\* ids (and labels) of the options of a question: A, B, C, D
OptionLabels == <<"A", "B", "C", "D">>

OptionIds == {OptionLabels[i] : i \in 1..MaxOptions}

NoOption == "null"


InitialGameState ==
    [status |-> "start",
     gameMode |-> "single",
     difficulty |-> 2,
     score |-> 0,
     computerScore |-> 0,
     consecutiveCorrect |-> 0,
     computerConsecutiveCorrect |-> 0,
     currentQuestionIndex |-> 0,
     totalQuestions |-> QUESTIONS_PER_GAME,
     timeLeft |-> GAME_DURATION_SECONDS,
     selectedOptionId |-> NoOption,
     isAnswerRevealed |-> FALSE,
     isPaused |-> FALSE,
     isHintActive |-> FALSE,
     isExitConfirmOpen |-> FALSE]

-----------------------------------------------------------------------------
(* The question bank and the question selector *)

\* const targetEastAsiaCount = 10, half of the 20 questions of a game
targetEastAsiaCount == QUESTIONS_PER_GAME \div 2

\* The bank: one question per country, the first targetEastAsiaCount of them
\* tagged EastAsia. Of a question the model keeps the fields the code reads:
\* country and region (selector), and the id of its one correct option
\* (options.find(o => o.id === id)?.isCorrect is id = correctId).
QUIZ_DATA ==
    [i \in 1..QUESTIONS_PER_GAME |->
        [id |-> i,
         country |-> i,
         region |-> IF i <= targetEastAsiaCount THEN "EastAsia" ELSE "Other",
         correctId |-> OptionLabels[((i - 1) % MaxOptions) + 1]]]

swap(arr, i, j) == [arr EXCEPT ![i] = arr[j], ![j] = arr[i]]

\* for (let i = newArr.length - 1; i > 0; i--) { j = random index <= i; swap }
\* with js[i] the index drawn at position i (positions counted from 1 here)
RECURSIVE shuffleFrom(_, _, _)
shuffleFrom(arr, i, js) ==
    IF i <= 1 THEN arr ELSE shuffleFrom(swap(arr, i, js[i]), i - 1, js)

\* the outcomes of shuffle(arr), one per sequence of random draws
shuffle(arr) ==
    {shuffleFrom(arr, Len(arr), js) :
        js \in {f \in [1..Len(arr) -> 1..Len(arr)] : \A i \in 1..Len(arr) : f[i] <= i}}

\* Faulty variant: the loop does not look at the countries selected already.
RECURSIVE pickAny(_, _, _)
pickAny(qs, selected, limit) ==
    IF qs = <<>> \/ Len(selected) >= limit THEN selected
    ELSE pickAny(Tail(qs), Append(selected, Head(qs)), limit)

\* one of the two selection loops: push the questions of qs whose country is
\* not selected yet, until selected holds limit questions
RECURSIVE pickDistinct(_, _, _)
pickDistinct(qs, selected, limit) ==
    IF qs = <<>> \/ Len(selected) >= limit THEN selected
    ELSE LET q == Head(qs)
         IN IF \E k \in 1..Len(selected) : selected[k].country = q.country
            THEN pickDistinct(Tail(qs), selected, limit)
            ELSE pickDistinct(Tail(qs), Append(selected, q), limit)

\* Faulty variant: the second loop draws from the whole bank.
isAnyRegion(q) == TRUE

isEastAsia(q) == q.region = "EastAsia"

isNotEastAsia(q) == q.region # "EastAsia"

\* the outcomes of getWeightedQuestions(allQuestions)
getWeightedQuestions(allQuestions) ==
    UNION {shuffle(pickDistinct(shuffledOthers,
                                pickDistinct(shuffledEastAsia, <<>>, targetEastAsiaCount),
                                QUESTIONS_PER_GAME)) :
              shuffledEastAsia \in shuffle(SelectSeq(allQuestions, isEastAsia)),
              shuffledOthers \in shuffle(SelectSeq(allQuestions, isNotEastAsia))}

-----------------------------------------------------------------------------
(* Scoring *)

\* Faulty variant: the combo bonus is taken after the streak was incremented.
calculateNewScoreStateLateBonus(currentScore, currentConsecutive, isCorrect, isHintUsed) ==
    IF isCorrect
    THEN IF isHintUsed
         THEN [score |-> currentScore, consecutive |-> 0]
         ELSE [score |-> currentScore + (100 + (currentConsecutive + 1) * 25),
               consecutive |-> currentConsecutive + 1]
    ELSE [score |-> currentScore - 50, consecutive |-> 0]

\* Faulty variant: the penalty is floored at zero (the Math.max(0, ...) the code removed).
calculateNewScoreStateFloored(currentScore, currentConsecutive, isCorrect, isHintUsed) ==
    IF isCorrect
    THEN IF isHintUsed
         THEN [score |-> currentScore, consecutive |-> 0]
         ELSE [score |-> currentScore + (100 + currentConsecutive * 25),
               consecutive |-> currentConsecutive + 1]
    ELSE [score |-> IF currentScore - 50 < 0 THEN 0 ELSE currentScore - 50,
          consecutive |-> 0]

\* Faulty variant: a correct answer scores whether or not the hint was used.
calculateNewScoreStateIgnoresHint(currentScore, currentConsecutive, isCorrect, isHintUsed) ==
    IF isCorrect
    THEN [score |-> currentScore + (100 + currentConsecutive * 25),
          consecutive |-> currentConsecutive + 1]
    ELSE [score |-> currentScore - 50, consecutive |-> 0]

calculateNewScoreState(currentScore, currentConsecutive, isCorrect, isHintUsed) ==
    IF isCorrect
    THEN IF isHintUsed
         THEN [score |-> currentScore, consecutive |-> 0]
         ELSE [score |-> currentScore + (100 + currentConsecutive * 25),
               consecutive |-> currentConsecutive + 1]
    ELSE [score |-> currentScore - 50, consecutive |-> 0]

-----------------------------------------------------------------------------
(* Leaderboard helpers *)

\* A name is the sequence of its characters. The names typed in the model:
\* a blank one, and one with a blank in front of a letter.
Names == {<<" ">>, <<" ", "A">>}

\* String.prototype.trim
RECURSIVE trimStart(_)
trimStart(name) ==
    IF name # <<>> /\ Head(name) = " " THEN trimStart(Tail(name)) ELSE name

RECURSIVE trimEnd(_)
trimEnd(name) ==
    IF name # <<>> /\ name[Len(name)] = " "
    THEN trimEnd(SubSeq(name, 1, Len(name) - 1)) ELSE name

trim(name) == trimEnd(trimStart(name))

\* arr.slice(0, n), and str.substring(0, n)
slice(arr, n) == SubSeq(arr, 1, IF Len(arr) < n THEN Len(arr) ELSE n)

\* the place of a new entry e in sorted: behind every entry it does not beat
RECURSIVE insertSorted(_, _)
insertSorted(sorted, e) ==
    IF sorted = <<>> THEN <<e>>
    ELSE IF Head(sorted).score >= e.score
         THEN <<Head(sorted)>> \o insertSorted(Tail(sorted), e)
         ELSE <<e>> \o sorted

\* entries.sort((a, b) => b.score - a.score): descending by score, stable
RECURSIVE sortDescending(_)
sortDescending(entries) ==
    IF entries = <<>> THEN <<>>
    ELSE insertSorted(sortDescending(SubSeq(entries, 1, Len(entries) - 1)),
                      entries[Len(entries)])

\* The item of LEADERBOARD_KEY: absent, a text JSON.parse rejects, or the text
\* JSON.stringify made of a list of entries. Of a rejected text the model keeps
\* the entries a reader that took it at face value would see.
Absent == [kind |-> "absent", entries |-> <<>>]

Unparsable ==
    [kind |-> "unparsable",
     entries |-> <<[name |-> <<"?">>, score |-> 0, timestamp |-> 0]>>]

\* Faulty variant: the stored text is taken at face value.
getLeaderboardUnchecked == leaderboard.entries

\* data ? JSON.parse(data) : [], and [] when JSON.parse throws
getLeaderboard ==
    IF leaderboard.kind = "json" THEN leaderboard.entries ELSE <<>>

\* the item written by localStorage.setItem(LEADERBOARD_KEY, JSON.stringify(entries))
saveLeaderboard(entries) == [kind |-> "json", entries |-> entries]

\* Faulty variant: a score equal to the lowest entry of a full list counts.
isHighScoreWithTies(score) ==
    IF score <= 0 THEN FALSE
    ELSE IF Len(getLeaderboard) < MAX_LEADERBOARD_ENTRIES THEN TRUE
    ELSE score >= getLeaderboard[Len(getLeaderboard)].score

isHighScore(score) ==
    IF score <= 0 THEN FALSE
    ELSE IF Len(getLeaderboard) < MAX_LEADERBOARD_ENTRIES THEN TRUE
    ELSE score > getLeaderboard[Len(getLeaderboard)].score

\* Faulty variant: the form stays on the finished screen after a save.
canSubmitScoreIgnoresSaved ==
    gameState.gameMode = "single" /\ isHighScore(gameState.score)

canSubmitScore ==
    gameState.gameMode = "single" /\ isHighScore(gameState.score) /\ ~isScoreSaved

\* Faulty variant: the new entry is put in front of the entries of its score.
updatedLeaderboardTiesFirst(entries, name, score, timestamp) ==
    slice(sortDescending(<<[name |-> slice(trim(name), MAX_NAME_LENGTH),
                            score |-> score,
                            timestamp |-> timestamp]>> \o entries),
          MAX_LEADERBOARD_ENTRIES)

\* Faulty variant: the list is not cut to MAX_LEADERBOARD_ENTRIES.
updatedLeaderboardUncut(entries, name, score, timestamp) ==
    sortDescending(Append(entries, [name |-> slice(trim(name), MAX_NAME_LENGTH),
                                    score |-> score,
                                    timestamp |-> timestamp]))

\* handleSaveScore, from the push to the slice: the list it saves
updatedLeaderboard(entries, name, score, timestamp) ==
    slice(sortDescending(Append(entries, [name |-> slice(trim(name), MAX_NAME_LENGTH),
                                          score |-> score,
                                          timestamp |-> timestamp])),
          MAX_LEADERBOARD_ENTRIES)

\* The clock counts units of 1/UnitsPerDay of a day from a Sunday 00:00 local
\* time; the items of localStorage hold times in the same unit.
Digits == <<"0", "1", "2", "3", "4", "5", "6", "7", "8", "9">>

\* Number.prototype.toString, of a time
RECURSIVE toString(_)
toString(n) ==
    IF n < 10 THEN <<Digits[n + 1]>>
    ELSE toString(n \div 10) \o <<Digits[(n % 10) + 1]>>

digitValue(c) == CHOOSE d \in 0..9 : Digits[d + 1] = c

\* parseInt, of a text of digits
RECURSIVE parseInt(_)
parseInt(str) ==
    IF Len(str) = 1 THEN digitValue(str[1])
    ELSE 10 * parseInt(SubSeq(str, 1, Len(str) - 1)) + digitValue(str[Len(str)])

\* now.getDay(): 0 (Sunday) to 6 (Saturday)
getDay(time) == (time \div UnitsPerDay) % 7

\* Faulty variant: the time of day is kept (no setHours(0, 0, 0, 0)).
lastMondayKeepsTime(time) ==
    LET currentDay == getDay(time)
        distanceToMonday == (currentDay + 6) % 7
    IN time - distanceToMonday * UnitsPerDay

\* lastMonday.getTime(): 00:00 of the day distanceToMonday days before the day of time
lastMonday(time) ==
    LET currentDay == getDay(time)
        distanceToMonday == (currentDay + 6) % 7
    IN ((time \div UnitsPerDay) - distanceToMonday) * UnitsPerDay

\* Faulty variant: a marker put exactly at the boundary counts as expired.
resetDueInclusive(lastResetStr, time) ==
    lastResetStr = <<>> \/ parseInt(lastResetStr) <= lastMonday(time)

\* !lastResetStr || parseInt(lastResetStr) < lastMonday.getTime()
resetDue(lastResetStr, time) ==
    lastResetStr = <<>> \/ parseInt(lastResetStr) < lastMonday(time)

-----------------------------------------------------------------------------
(* The opponent *)

\* aiTriggerTimeRef.current = GAME_DURATION_SECONDS - delay, in half seconds, with
\* delay = minDelay + Math.random() * range and Math.random() < 1. timeLeft is a
\* whole number of seconds, so only the integer part of the trigger time matters,
\* and the half-second grid yields every integer part a real delay yields.
TriggerTimes(difficulty) ==
    {2 * GAME_DURATION_SECONDS - delay :
        delay \in AI_CONFIG[difficulty].minDelay .. (AI_CONFIG[difficulty].maxDelay - 1)}

\* Faulty variant: the opponent is scored as if it had used the hint.
executeAIAnswerWithHint(currentState, answered, isCorrect) ==
    IF answered
    THEN [state |-> currentState, answered |-> TRUE, fired |-> FALSE]
    ELSE LET new == calculateNewScoreState(currentState.computerScore,
                                           currentState.computerConsecutiveCorrect,
                                           isCorrect, TRUE)
         IN [state |-> [currentState EXCEPT
                           !.computerScore = new.score,
                           !.computerConsecutiveCorrect = new.consecutive],
             answered |-> TRUE,
             fired |-> TRUE]

\* Faulty variant: no early return when the opponent has answered already.
executeAIAnswerUnguarded(currentState, answered, isCorrect) ==
    LET new == calculateNewScoreState(currentState.computerScore,
                                      currentState.computerConsecutiveCorrect,
                                      isCorrect, FALSE)
    IN [state |-> [currentState EXCEPT
                      !.computerScore = new.score,
                      !.computerConsecutiveCorrect = new.consecutive],
        answered |-> TRUE,
        fired |-> TRUE]

\* executeAIAnswer(currentState): answered is aiAnsweredRef.current at the call,
\* isCorrect the outcome of Math.random() < config.accuracy. The result holds
\* the returned state, the new value of the ref, and whether the call scored.
executeAIAnswer(currentState, answered, isCorrect) ==
    IF answered
    THEN [state |-> currentState, answered |-> TRUE, fired |-> FALSE]
    ELSE LET new == calculateNewScoreState(currentState.computerScore,
                                           currentState.computerConsecutiveCorrect,
                                           isCorrect, FALSE)
         IN [state |-> [currentState EXCEPT
                           !.computerScore = new.score,
                           !.computerConsecutiveCorrect = new.consecutive],
             answered |-> TRUE,
             fired |-> TRUE]

-----------------------------------------------------------------------------
(* Effects *)

\* dependency list of the opponent-init effect
\* Faulty variant: the opponent is not re-armed when the question changes.
aiInitDepsWithoutIndex(gs) == <<gs.status, gs.gameMode, gs.difficulty>>

aiInitDeps(gs) ==
    <<gs.currentQuestionIndex, gs.status, gs.gameMode, gs.difficulty>>

\* dependency list of the timer effect (handleNext and executeAIAnswer never change)
timerDeps(gs) ==
    <<gs.timeLeft, gs.isAnswerRevealed, gs.isPaused, gs.isExitConfirmOpen,
      gs.status, gs.gameMode>>

\* the opponent-init effect runs, and passes its condition, on the render of gs
aiInitRuns(gs) ==
    /\ aiInitDeps(gs) # aiInitDeps(gameState)
    /\ gs.status = "playing"
    /\ gs.gameMode = "pve"

\* the timer effect runs on the render of gs and passes its two early returns
timerRuns(gs) ==
    /\ timerDeps(gs) # timerDeps(gameState)
    /\ gs.status = "playing"
    /\ ~(gs.isAnswerRevealed \/ gs.isPaused \/ gs.isExitConfirmOpen)

\* Faulty variant: the timeout branch does not make the opponent answer.
timerEffectSkipsOpponent(gs, answered, trigger, isCorrect) ==
    IF gs.timeLeft <= 0
    THEN [state |-> [gs EXCEPT
                        !.consecutiveCorrect = 0,
                        !.score = gs.score - 50,
                        !.isAnswerRevealed = TRUE],
          answered |-> answered,
          fired |-> FALSE,
          timedOut |-> TRUE]
    ELSE IF gs.gameMode = "pve" /\ ~answered /\ 2 * gs.timeLeft <= trigger
    THEN LET nextState == executeAIAnswer(gs, answered, isCorrect)
         IN [state |-> nextState.state,
             answered |-> nextState.answered,
             fired |-> nextState.fired,
             timedOut |-> FALSE]
    ELSE [state |-> gs, answered |-> answered, fired |-> FALSE, timedOut |-> FALSE]

\* Faulty variant: the timeout branch leaves the player's streak alone.
timerEffectKeepsCombo(gs, answered, trigger, isCorrect) ==
    IF gs.timeLeft <= 0
    THEN LET nextState == IF gs.gameMode = "pve"
                          THEN executeAIAnswer(gs, answered, isCorrect)
                          ELSE [state |-> gs, answered |-> answered, fired |-> FALSE]
         IN [state |-> [nextState.state EXCEPT
                           !.score = gs.score - 50,
                           !.isAnswerRevealed = TRUE],
             answered |-> nextState.answered,
             fired |-> nextState.fired,
             timedOut |-> TRUE]
    ELSE IF gs.gameMode = "pve" /\ ~answered /\ 2 * gs.timeLeft <= trigger
    THEN LET nextState == executeAIAnswer(gs, answered, isCorrect)
         IN [state |-> nextState.state,
             answered |-> nextState.answered,
             fired |-> nextState.fired,
             timedOut |-> FALSE]
    ELSE [state |-> gs, answered |-> answered, fired |-> FALSE, timedOut |-> FALSE]

\* What the timer effect does to the state when it runs on gs: the timeout
\* branch (timedOut: it also schedules handleNext), or the opponent's trigger.
timerEffect(gs, answered, trigger, isCorrect) ==
    IF gs.timeLeft <= 0
    THEN LET nextState == IF gs.gameMode = "pve"
                          THEN executeAIAnswer(gs, answered, isCorrect)
                          ELSE [state |-> gs, answered |-> answered, fired |-> FALSE]
         IN [state |-> [nextState.state EXCEPT
                           !.consecutiveCorrect = 0,
                           !.score = gs.score - 50,
                           !.isAnswerRevealed = TRUE],
             answered |-> nextState.answered,
             fired |-> nextState.fired,
             timedOut |-> TRUE]
    ELSE IF gs.gameMode = "pve" /\ ~answered /\ 2 * gs.timeLeft <= trigger
    THEN LET nextState == executeAIAnswer(gs, answered, isCorrect)
         IN [state |-> nextState.state,
             answered |-> nextState.answered,
             fired |-> nextState.fired,
             timedOut |-> FALSE]
    ELSE [state |-> gs, answered |-> answered, fired |-> FALSE, timedOut |-> FALSE]

\* a timeout just scheduled: it has seen no tick, it belongs to the running game,
\* and the 500 ms timeouts pending now (after) fire before it does
NewTimer ==
    [ticks |-> 0, stale |-> FALSE,
     after |-> IF LEADERBOARD_DELAY_MS <= NEXT_DELAY_MS THEN pendingLeaderboard ELSE 0]

\* the pending timeouts once the game they were scheduled in is over
markStale(timers) == [i \in DOMAIN timers |-> [timers[i] EXCEPT !.stale = TRUE]]

\* the history of a question just entered in state gs: the opponent's answers,
\* hint deductions and timeouts applied so far, and the scores it started with;
\* correctNoHint counts the questions of the game answered correctly without hint
\* resolved and aiResolved count the questions of the game the player has
\* resolved (answered or timed out) and the opponent has answered
NewQuestionLog(gs) ==
    [aiAnswers |-> 0, hints |-> 0, timeouts |-> 0, correctNoHint |-> 0,
     resolved |-> 0, aiResolved |-> 0,
     startScore |-> gs.score,
     startComputerScore |-> gs.computerScore,
     startComputerConsecutive |-> gs.computerConsecutiveCorrect]

\* The render of the state gs that a handler produced, and the effects after it.
\* answered: aiAnsweredRef after the handler's update; timers: the pending
\* timeouts after the handler; log: the question's history after the handler.
Render(gs, answered, timers, log) ==
    LET answered1 == IF aiInitRuns(gs) THEN FALSE ELSE answered
    IN \E trigger \in (IF aiInitRuns(gs) THEN TriggerTimes(gs.difficulty)
                                         ELSE {aiTriggerTimeRef}) :
       \E isCorrect \in (IF /\ timerRuns(gs)
                            /\ gs.gameMode = "pve"
                            /\ ~answered1
                            /\ (gs.timeLeft <= 0 \/ 2 * gs.timeLeft <= trigger)
                         THEN BOOLEAN ELSE {FALSE}) :
          LET eff == IF timerRuns(gs)
                     THEN timerEffect(gs, answered1, trigger, isCorrect)
                     ELSE [state |-> gs, answered |-> answered1,
                           fired |-> FALSE, timedOut |-> FALSE]
          IN /\ eff.timedOut => Len(timers) < MaxPendingNext
             /\ gameState' = eff.state
             /\ aiAnsweredRef' = eff.answered
             /\ aiTriggerTimeRef' = trigger
             /\ pendingNext' = IF eff.timedOut THEN Append(timers, NewTimer) ELSE timers
             /\ questionLog' = [log EXCEPT
                                   !.aiAnswers = @ + (IF eff.fired THEN 1 ELSE 0),
                                   !.aiResolved = @ + (IF eff.fired THEN 1 ELSE 0),
                                   !.timeouts = @ + (IF eff.timedOut THEN 1 ELSE 0),
                                   !.resolved = @ + (IF eff.timedOut THEN 1 ELSE 0)]

-----------------------------------------------------------------------------
(* State updates of the handlers *)

\* Faulty variant: the streak of the previous game is carried into the new one.
startPlayingStateKeepsCombo(mode, diff) ==
    [status |-> "playing",
     gameMode |-> mode,
     difficulty |-> diff,
     score |-> 0,
     computerScore |-> 0,
     consecutiveCorrect |-> gameState.consecutiveCorrect,
     computerConsecutiveCorrect |-> 0,
     currentQuestionIndex |-> 0,
     totalQuestions |-> QUESTIONS_PER_GAME,
     timeLeft |-> GAME_DURATION_SECONDS,
     selectedOptionId |-> NoOption,
     isAnswerRevealed |-> FALSE,
     isPaused |-> FALSE,
     isHintActive |-> FALSE,
     isExitConfirmOpen |-> FALSE]

\* the state startPlaying sets
startPlayingState(mode, diff) ==
    [status |-> "playing",
     gameMode |-> mode,
     difficulty |-> diff,
     score |-> 0,
     computerScore |-> 0,
     consecutiveCorrect |-> 0,
     computerConsecutiveCorrect |-> 0,
     currentQuestionIndex |-> 0,
     totalQuestions |-> QUESTIONS_PER_GAME,
     timeLeft |-> GAME_DURATION_SECONDS,
     selectedOptionId |-> NoOption,
     isAnswerRevealed |-> FALSE,
     isPaused |-> FALSE,
     isHintActive |-> FALSE,
     isExitConfirmOpen |-> FALSE]

\* the updater of handleConfirmExit
confirmExitUpdater(prev) ==
    [prev EXCEPT !.status = "start", !.isExitConfirmOpen = FALSE]

\* Faulty variant: the last question is followed by one more advance.
handleNextOffByOne(prev) ==
    LET nextIndex == prev.currentQuestionIndex + 1
    IN IF nextIndex > prev.totalQuestions
       THEN [prev EXCEPT !.status = "finished"]
       ELSE [prev EXCEPT
                !.currentQuestionIndex = nextIndex,
                !.timeLeft = GAME_DURATION_SECONDS,
                !.selectedOptionId = NoOption,
                !.isAnswerRevealed = FALSE,
                !.isPaused = FALSE,
                !.isHintActive = FALSE]

\* Faulty variant: the advance breaks the player's streak.
handleNextResetsCombo(prev) ==
    LET nextIndex == prev.currentQuestionIndex + 1
    IN IF nextIndex >= prev.totalQuestions
       THEN [prev EXCEPT !.status = "finished"]
       ELSE [prev EXCEPT
                !.currentQuestionIndex = nextIndex,
                !.timeLeft = GAME_DURATION_SECONDS,
                !.selectedOptionId = NoOption,
                !.isAnswerRevealed = FALSE,
                !.isPaused = FALSE,
                !.isHintActive = FALSE,
                !.consecutiveCorrect = 0]

\* Faulty variant: the advance waits while the exit dialog is open.
handleNextBlockedByExitDialog(prev) ==
    LET nextIndex == prev.currentQuestionIndex + 1
    IN IF prev.isExitConfirmOpen THEN prev
       ELSE IF nextIndex >= prev.totalQuestions
       THEN [prev EXCEPT !.status = "finished"]
       ELSE [prev EXCEPT
                !.currentQuestionIndex = nextIndex,
                !.timeLeft = GAME_DURATION_SECONDS,
                !.selectedOptionId = NoOption,
                !.isAnswerRevealed = FALSE,
                !.isPaused = FALSE,
                !.isHintActive = FALSE]

\* Faulty variant: the hint of the question left behind stays active.
handleNextKeepsHint(prev) ==
    LET nextIndex == prev.currentQuestionIndex + 1
    IN IF nextIndex >= prev.totalQuestions
       THEN [prev EXCEPT !.status = "finished"]
       ELSE [prev EXCEPT
                !.currentQuestionIndex = nextIndex,
                !.timeLeft = GAME_DURATION_SECONDS,
                !.selectedOptionId = NoOption,
                !.isAnswerRevealed = FALSE,
                !.isPaused = FALSE]

\* the updater of handleNext
handleNext(prev) ==
    LET nextIndex == prev.currentQuestionIndex + 1
    IN IF nextIndex >= prev.totalQuestions
       THEN [prev EXCEPT !.status = "finished"]
       ELSE [prev EXCEPT
                !.currentQuestionIndex = nextIndex,
                !.timeLeft = GAME_DURATION_SECONDS,
                !.selectedOptionId = NoOption,
                !.isAnswerRevealed = FALSE,
                !.isPaused = FALSE,
                !.isHintActive = FALSE]

\* the updater of handlePause
pauseUpdater(prev) == [prev EXCEPT !.isPaused = ~prev.isPaused]

\* Faulty variant: the early return lets a hint through after the reveal.
hintBlockedIgnoresReveal(gs) ==
    \/ gs.isPaused
    \/ gs.isHintActive
    \/ gs.isExitConfirmOpen

\* Faulty variant: the early return forgets the hint already taken.
hintBlockedIgnoresActiveHint(gs) ==
    \/ gs.isAnswerRevealed
    \/ gs.isPaused
    \/ gs.isExitConfirmOpen

\* Faulty variant: H takes the hint under the exit dialog.
hintBlockedIgnoresExitDialog(gs) ==
    \/ gs.isAnswerRevealed
    \/ gs.isPaused
    \/ gs.isHintActive

\* the early return of handleHint
hintBlocked(gs) ==
    \/ gs.isAnswerRevealed
    \/ gs.isPaused
    \/ gs.isHintActive
    \/ gs.isExitConfirmOpen

\* Faulty variant: taking the hint also breaks the streak.
hintUpdaterResetsCombo(prev) ==
    [prev EXCEPT !.score = prev.score - 100, !.isHintActive = TRUE,
                 !.consecutiveCorrect = 0]

\* Faulty variant: the hint costs twice as much.
hintUpdaterDoubleCost(prev) ==
    [prev EXCEPT !.score = prev.score - 200, !.isHintActive = TRUE]

\* the updater of handleHint
hintUpdater(prev) ==
    [prev EXCEPT !.score = prev.score - 100, !.isHintActive = TRUE]

\* Faulty variant: the player's answer does not make the opponent answer.
selectOptionUpdaterSkipsOpponent(prev, id, isCorrect, answered, aiCorrect) ==
    LET new == calculateNewScoreState(prev.score, prev.consecutiveCorrect,
                                      isCorrect, prev.isHintActive)
    IN [state |-> [prev EXCEPT
                      !.selectedOptionId = id,
                      !.isAnswerRevealed = TRUE,
                      !.score = new.score,
                      !.consecutiveCorrect = new.consecutive],
        answered |-> answered,
        fired |-> FALSE]

\* the updater of handleSelectOption: isCorrect is the correctness found for the
\* chosen option, answered is aiAnsweredRef.current, aiCorrect the opponent's draw
selectOptionUpdater(prev, id, isCorrect, answered, aiCorrect) ==
    LET new == calculateNewScoreState(prev.score, prev.consecutiveCorrect,
                                      isCorrect, prev.isHintActive)
        nextState == [prev EXCEPT
                         !.selectedOptionId = id,
                         !.isAnswerRevealed = TRUE,
                         !.score = new.score,
                         !.consecutiveCorrect = new.consecutive]
    IN IF prev.gameMode = "pve" /\ ~answered
       THEN executeAIAnswer(nextState, answered, aiCorrect)
       ELSE [state |-> nextState, answered |-> answered, fired |-> FALSE]

\* Faulty variant: a tick takes two seconds off the clock.
tickUpdaterTwoSeconds(prev) == [prev EXCEPT !.timeLeft = prev.timeLeft - 2]

\* the updater of the interval callback of the timer effect
tickUpdater(prev) == [prev EXCEPT !.timeLeft = prev.timeLeft - 1]

-----------------------------------------------------------------------------
(* What the rendered screen offers *)

\* const currentQuestionData = activeQuestions[index] || activeQuestions[0]
currentQuestionData ==
    IF gameState.currentQuestionIndex + 1 \in DOMAIN activeQuestions
    THEN <<activeQuestions[gameState.currentQuestionIndex + 1]>>
    ELSE IF activeQuestions # <<>> THEN <<activeQuestions[1]>> ELSE <<>>

\* the playing screen (top bar, question card, exit dialog) is rendered
playingScreen == gameState.status = "playing" /\ currentQuestionData # <<>>

\* the keyboard shortcuts (Space, H, E) are handled
shortcutsActive == gameState.status = "playing"

-----------------------------------------------------------------------------
(* Actions: one per event *)

\* the outcomes of getWeightedQuestions(QUIZ_DATA) in startPlaying
sessionQuestions == getWeightedQuestions(QUIZ_DATA)

\* what no handler of the game writes: the reset marker, the clock (a game
\* is over long before the clock's unit has passed) and the bank
fixedVars == <<lastReset, now, quizData>>

otherVars ==
    <<leaderboard, scoring, selector, gamesStarted, pveGamesStarted, pendingLeaderboard,
      fixedVars>>

\* the running game is one of those the model plays
withinPlayedGames == gamesStarted <= MaxPlayedGames

startPlaying(mode, diff) ==
    /\ gamesStarted < MaxGames
    /\ mode = "pve" => pveGamesStarted < MaxPveGames
    /\ gamesStarted' = gamesStarted + 1
    /\ pveGamesStarted' = pveGamesStarted + (IF mode = "pve" THEN 1 ELSE 0)
    /\ activeQuestions' \in IF quizData = QUIZ_DATA THEN sessionQuestions
                             ELSE getWeightedQuestions(quizData)
    /\ playerName' = <<>>
    /\ isScoreSaved' = FALSE
    /\ Render(startPlayingState(mode, diff), aiAnsweredRef, markStale(pendingNext),
              NewQuestionLog(startPlayingState(mode, diff)))
    /\ UNCHANGED <<leaderboard, scoring, selector, pendingLeaderboard, fixedVars>>

handleModeSelect(mode) ==
    /\ gameState.status = "start"
    /\ IF mode = "single"
       THEN startPlaying("single", 2)
       ELSE /\ Render([gameState EXCEPT !.status = "difficulty_select",
                                        !.gameMode = "pve"],
                      aiAnsweredRef, pendingNext, questionLog)
            /\ UNCHANGED <<activeQuestions, playerName, isScoreSaved, otherVars>>

handleDifficultySelect(diff) ==
    /\ gameState.status = "difficulty_select"
    /\ startPlaying("pve", diff)

\* the two "back to the main menu" buttons (difficulty and leaderboard screens)
handleBackToMenu ==
    /\ gameState.status \in {"difficulty_select", "leaderboard"}
    /\ Render([gameState EXCEPT !.status = "start"],
              aiAnsweredRef, pendingNext, questionLog)
    /\ UNCHANGED <<activeQuestions, playerName, isScoreSaved, otherVars>>

handleViewLeaderboard ==
    /\ \/ gameState.status = "start"
       \/ gameState.status = "finished" /\ ~canSubmitScore
                                        /\ gameState.gameMode = "single"
    /\ Render([gameState EXCEPT !.status = "leaderboard"],
              aiAnsweredRef, pendingNext, questionLog)
    /\ UNCHANGED <<activeQuestions, playerName, isScoreSaved, otherVars>>

handleRestartGame ==
    /\ gameState.status = "finished"
    /\ activeQuestions' = <<>>
    /\ playerName' = <<>>
    /\ isScoreSaved' = FALSE
    /\ Render(InitialGameState, aiAnsweredRef, markStale(pendingNext),
              NewQuestionLog(InitialGameState))
    /\ UNCHANGED otherVars

handleExitRequest ==
    /\ withinPlayedGames
    /\ IF gameState.status = "playing"
       THEN Render([gameState EXCEPT !.isExitConfirmOpen = TRUE],
                   aiAnsweredRef, pendingNext, questionLog)
       ELSE UNCHANGED <<gameState, aiAnsweredRef, aiTriggerTimeRef, pendingNext,
                        questionLog>>
    /\ UNCHANGED <<activeQuestions, playerName, isScoreSaved, otherVars>>

handleConfirmExit ==
    /\ withinPlayedGames
    /\ playingScreen
    /\ gameState.isExitConfirmOpen
    /\ activeQuestions' = <<>>
    /\ Render(confirmExitUpdater(gameState), aiAnsweredRef, markStale(pendingNext),
              questionLog)
    /\ UNCHANGED <<playerName, isScoreSaved, otherVars>>

handleCancelExit ==
    /\ withinPlayedGames
    /\ shortcutsActive
    /\ gameState.isExitConfirmOpen
    /\ Render([gameState EXCEPT !.isExitConfirmOpen = FALSE],
              aiAnsweredRef, pendingNext, questionLog)
    /\ UNCHANGED <<activeQuestions, playerName, isScoreSaved, otherVars>>

\* Faulty variant: Space toggles the pause under the exit dialog.
pauseBlockedIgnoresExitDialog(gs) == gs.isAnswerRevealed

\* Faulty variant: Space toggles the pause over a revealed answer.
pauseBlockedIgnoresReveal(gs) == gs.isExitConfirmOpen

\* if (gameState.isAnswerRevealed || gameState.isExitConfirmOpen) return;
pauseBlocked(gs) == gs.isAnswerRevealed \/ gs.isExitConfirmOpen

handlePause ==
    /\ shortcutsActive
    /\ IF pauseBlocked(gameState)
       THEN UNCHANGED <<gameState, aiAnsweredRef, aiTriggerTimeRef, pendingNext,
                        questionLog>>
       ELSE Render(pauseUpdater(gameState), aiAnsweredRef, pendingNext, questionLog)
    /\ UNCHANGED <<activeQuestions, playerName, isScoreSaved, otherVars>>

handleHint ==
    /\ shortcutsActive
    /\ IF hintBlocked(gameState)
       THEN UNCHANGED <<gameState, aiAnsweredRef, aiTriggerTimeRef, pendingNext,
                        questionLog>>
       ELSE Render(hintUpdater(gameState), aiAnsweredRef, pendingNext,
                   [questionLog EXCEPT !.hints = @ + 1])
    /\ UNCHANGED <<activeQuestions, playerName, isScoreSaved, otherVars>>

handleSelectOption(id) ==
    /\ withinPlayedGames
    /\ playingScreen
    /\ IF \/ gameState.isAnswerRevealed
          \/ gameState.isPaused
          \/ gameState.isExitConfirmOpen
          \/ gameState.currentQuestionIndex + 1 \notin DOMAIN activeQuestions
       THEN UNCHANGED <<gameState, aiAnsweredRef, aiTriggerTimeRef, pendingNext,
                        questionLog>>
       ELSE LET currentData == activeQuestions[gameState.currentQuestionIndex + 1]
                isCorrect == (id = currentData.correctId)
            IN /\ Len(pendingNext) < MaxPendingNext
               /\ \E aiCorrect \in (IF gameState.gameMode = "pve" /\ ~aiAnsweredRef
                                    THEN BOOLEAN ELSE {FALSE}) :
                     LET upd == selectOptionUpdater(gameState, id, isCorrect,
                                                    aiAnsweredRef, aiCorrect)
                     IN Render(upd.state, upd.answered,
                               Append(pendingNext, NewTimer),
                               [questionLog EXCEPT
                                   !.aiAnswers = @ + (IF upd.fired THEN 1 ELSE 0),
                                   !.aiResolved = @ + (IF upd.fired THEN 1 ELSE 0),
                                   !.resolved = @ + 1,
                                   !.correctNoHint =
                                       @ + (IF isCorrect /\ ~gameState.isHintActive
                                            THEN 1 ELSE 0)])
    /\ UNCHANGED <<activeQuestions, playerName, isScoreSaved, otherVars>>

\* onChange of the name input of the finished screen (rendered with the form)
handleNameChange(name) ==
    /\ gameState.status = "finished"
    /\ canSubmitScore
    /\ playerName' = name
    /\ UNCHANGED <<gameState, activeQuestions, aiAnsweredRef, aiTriggerTimeRef,
                   pendingNext, isScoreSaved, questionLog, otherVars>>

\* the save button of the finished screen (rendered with the form)
handleSaveScore ==
    /\ gameState.status = "finished"
    /\ canSubmitScore
    /\ IF trim(playerName) = <<>>
       THEN UNCHANGED <<leaderboard, isScoreSaved, pendingLeaderboard>>
       ELSE /\ leaderboard' = saveLeaderboard(updatedLeaderboard(getLeaderboard,
                                             playerName, gameState.score, now))
               /\ isScoreSaved' = TRUE
               /\ pendingLeaderboard' = pendingLeaderboard + 1
    /\ UNCHANGED <<gameState, activeQuestions, aiAnsweredRef, aiTriggerTimeRef,
                   pendingNext, playerName, questionLog, gamesStarted, pveGamesStarted,
                   scoring, selector, fixedVars>>

\* The oldest pending setTimeout of handleSaveScore fires, LEADERBOARD_DELAY_MS
\* after the save: before every handleNext timeout scheduled since the save.
LeaderboardTimerFires ==
    /\ pendingLeaderboard > 0
    /\ pendingLeaderboard' = pendingLeaderboard - 1
    /\ Render([gameState EXCEPT !.status = "leaderboard"], aiAnsweredRef,
              [i \in DOMAIN pendingNext |->
                  [pendingNext[i] EXCEPT
                      !.after = IF @ > 0 THEN @ - 1 ELSE 0]],
              questionLog)
    /\ UNCHANGED <<activeQuestions, playerName, isScoreSaved, leaderboard, scoring,
                   selector, gamesStarted, pveGamesStarted, fixedVars>>

\* The interval of the timer effect fires. The effect installs it only past its
\* early returns and its timeout branch. A pending handleNext timeout, due
\* NEXT_DELAY_MS after a reveal (which cleared the interval of that time), fires
\* before any tick that would be the second one after that reveal. A tick comes
\* TICK_INTERVAL_MS after the effect ran in status playing, so the timeouts of
\* the saves made before that (on the finished screen) have fired.
TimerTick ==
    /\ withinPlayedGames
    /\ gameState.status = "playing"
    /\ ~(gameState.isAnswerRevealed \/ gameState.isPaused \/ gameState.isExitConfirmOpen)
    /\ gameState.timeLeft > 0
    /\ pendingLeaderboard = 0 \/ TICK_INTERVAL_MS < LEADERBOARD_DELAY_MS
    /\ \A i \in DOMAIN pendingNext :
          (pendingNext[i].ticks + 1) * TICK_INTERVAL_MS < NEXT_DELAY_MS
    /\ Render(tickUpdater(gameState), aiAnsweredRef,
              [i \in DOMAIN pendingNext |->
                  [pendingNext[i] EXCEPT !.ticks = @ + 1]],
              questionLog)
    /\ UNCHANGED <<activeQuestions, playerName, isScoreSaved, otherVars>>

\* The oldest pending setTimeout(() => handleNext(), 1500) fires.
NextTimerFires ==
    /\ pendingNext # <<>>
    /\ Head(pendingNext).after = 0
    /\ LET gs == handleNext(gameState)
       IN Render(gs, aiAnsweredRef, Tail(pendingNext),
                 IF gs.currentQuestionIndex # gameState.currentQuestionIndex
                 THEN [NewQuestionLog(gs) EXCEPT
                          !.correctNoHint = questionLog.correctNoHint,
                          !.resolved = questionLog.resolved,
                          !.aiResolved = questionLog.aiResolved]
                 ELSE questionLog)
    /\ UNCHANGED <<activeQuestions, playerName, isScoreSaved, otherVars>>

-----------------------------------------------------------------------------
(* The game *)

NoScoring ==
    [currentScore |-> 0, currentConsecutive |-> 0, isCorrect |-> FALSE,
     isHintUsed |-> FALSE, called |-> FALSE, result |-> [score |-> 0, consecutive |-> 0]]

NoSelection == [bank |-> <<>>, called |-> FALSE, result |-> <<>>]

Init ==
    /\ gameState = InitialGameState
    /\ activeQuestions = <<>>
    /\ aiAnsweredRef = FALSE
    /\ aiTriggerTimeRef = 0
    /\ pendingNext = <<>>
    /\ playerName = <<>>
    /\ isScoreSaved = FALSE
    /\ leaderboard = Absent
    /\ lastReset = toString(0)
    /\ now = 0
    /\ quizData = QUIZ_DATA
    /\ pendingLeaderboard = 0
    /\ questionLog = NewQuestionLog(InitialGameState)
    /\ gamesStarted = 0
    /\ pveGamesStarted = 0
    /\ scoring = NoScoring
    /\ selector = NoSelection

Next ==
    \/ \E mode \in GameMode : handleModeSelect(mode)
    \/ \E diff \in Difficulty : handleDifficultySelect(diff)
    \/ handleBackToMenu
    \/ handleViewLeaderboard
    \/ handleRestartGame
    \/ handleExitRequest
    \/ handleConfirmExit
    \/ handleCancelExit
    \/ handlePause
    \/ handleHint
    \/ \E id \in OptionIds : handleSelectOption(id)
    \/ \E name \in Names \cup {<<>>} : handleNameChange(name)
    \/ handleSaveScore
    \/ TimerTick
    \/ NextTimerFires
    \/ LeaderboardTimerFires

Spec == Init /\ [][Next]_vars

\* The game with a bank that cannot fill a game: one question fewer than
\* QUESTIONS_PER_GAME.
ShortBanks == {SubSeq(QUIZ_DATA, 1, QUESTIONS_PER_GAME - 1)}

InitShortBank ==
    /\ gameState = InitialGameState
    /\ activeQuestions = <<>>
    /\ aiAnsweredRef = FALSE
    /\ aiTriggerTimeRef = 0
    /\ pendingNext = <<>>
    /\ playerName = <<>>
    /\ isScoreSaved = FALSE
    /\ leaderboard = Absent
    /\ lastReset = toString(0)
    /\ now = 0
    /\ quizData \in ShortBanks
    /\ pendingLeaderboard = 0
    /\ questionLog = NewQuestionLog(InitialGameState)
    /\ gamesStarted = 0
    /\ pveGamesStarted = 0
    /\ scoring = NoScoring
    /\ selector = NoSelection

SpecShortBank == InitShortBank /\ [][Next]_vars

\* The game with its timeouts: a callback passed to setTimeout is run once its
\* delay has passed, whatever else happens. The bank is one question short, so
\* that a game has one question to answer and one index past the selection:
\* reveals by answer and by timeout, an advance and the end of the game all occur.
SpecFair ==
    /\ InitShortBank
    /\ [][Next]_vars
    /\ WF_vars(NextTimerFires)
    /\ WF_vars(LeaderboardTimerFires)

-----------------------------------------------------------------------------
(* The scoring function alone: its inputs are drawn, one step applies it *)

ScoreInputs == {25 * k : k \in (0 - MaxScoreSteps)..MaxScoreSteps}

ComboInputs == 0..MaxCombo

InitScoring ==
    /\ gameState = InitialGameState
    /\ activeQuestions = <<>>
    /\ aiAnsweredRef = FALSE
    /\ aiTriggerTimeRef = 0
    /\ pendingNext = <<>>
    /\ playerName = <<>>
    /\ isScoreSaved = FALSE
    /\ leaderboard = Absent
    /\ lastReset = toString(0)
    /\ now = 0
    /\ quizData = QUIZ_DATA
    /\ pendingLeaderboard = 0
    /\ questionLog = NewQuestionLog(InitialGameState)
    /\ gamesStarted = 0
    /\ pveGamesStarted = 0
    /\ scoring \in [currentScore : ScoreInputs,
                    currentConsecutive : ComboInputs,
                    isCorrect : BOOLEAN,
                    isHintUsed : BOOLEAN,
                    called : {FALSE},
                    result : {[score |-> 0, consecutive |-> 0]}]
    /\ selector = NoSelection

ApplyScoring ==
    /\ ~scoring.called
    /\ scoring' = [scoring EXCEPT
                      !.called = TRUE,
                      !.result = calculateNewScoreState(scoring.currentScore,
                                                        scoring.currentConsecutive,
                                                        scoring.isCorrect,
                                                        scoring.isHintUsed)]
    /\ UNCHANGED <<gameState, activeQuestions, aiAnsweredRef, aiTriggerTimeRef,
                   pendingNext, playerName, isScoreSaved, leaderboard,
                   pendingLeaderboard, questionLog, gamesStarted, pveGamesStarted,
                   fixedVars,
                   selector>>

NextScoring == ApplyScoring

SpecScoring == InitScoring /\ [][NextScoring]_vars

-----------------------------------------------------------------------------
(* The question selector alone: a bank is drawn, one step applies the selector *)

Regions == {"EastAsia", "Other"}

\* the banks of up to MaxBank questions over MaxCountries countries; several
\* questions may share a country, in the same region or not
Banks ==
    UNION {{[i \in 1..n |-> [id |-> i,
                             country |-> tags[i][1],
                             region |-> tags[i][2],
                             correctId |-> OptionLabels[1]]] :
               tags \in [1..n -> (1..MaxCountries) \X Regions]} : n \in 0..MaxBank}

InitSelector ==
    /\ gameState = InitialGameState
    /\ activeQuestions = <<>>
    /\ aiAnsweredRef = FALSE
    /\ aiTriggerTimeRef = 0
    /\ pendingNext = <<>>
    /\ playerName = <<>>
    /\ isScoreSaved = FALSE
    /\ leaderboard = Absent
    /\ lastReset = toString(0)
    /\ now = 0
    /\ quizData = QUIZ_DATA
    /\ pendingLeaderboard = 0
    /\ questionLog = NewQuestionLog(InitialGameState)
    /\ gamesStarted = 0
    /\ pveGamesStarted = 0
    /\ scoring = NoScoring
    /\ selector \in [bank : Banks, called : {FALSE}, result : {<<>>}]

ApplySelector ==
    /\ ~selector.called
    /\ \E selected \in getWeightedQuestions(selector.bank) :
          selector' = [selector EXCEPT !.called = TRUE, !.result = selected]
    /\ UNCHANGED <<gameState, activeQuestions, aiAnsweredRef, aiTriggerTimeRef,
                   pendingNext, playerName, isScoreSaved, leaderboard,
                   pendingLeaderboard, questionLog, gamesStarted, pveGamesStarted,
                   fixedVars,
                   scoring>>

NextSelector == ApplySelector

SpecSelector == InitSelector /\ [][NextSelector]_vars

-----------------------------------------------------------------------------
(* The leaderboard store alone: the items of localStorage are drawn, the steps
   are score submissions (handleSaveScore with any name and score), page loads
   (checkWeeklyReset runs on mount) and the passing of time *)

MaxTime == MaxDays * UnitsPerDay

\* the scores submitted; the entries stored at the start have scores 100 and 225
SubmittedScores == {0, 100, 225}

\* the lists a run of the program can have saved: at most
\* MAX_LEADERBOARD_ENTRIES entries, sorted descending by score
ValidBoards ==
    UNION {{[i \in 1..n |-> [name |-> toString(i),
                             score |-> IF i <= k THEN 225 ELSE 100,
                             timestamp |-> 0]] : k \in 0..n} :
              n \in 0..MAX_LEADERBOARD_ENTRIES}

InitLeaderboard ==
    /\ gameState = InitialGameState
    /\ activeQuestions = <<>>
    /\ aiAnsweredRef = FALSE
    /\ aiTriggerTimeRef = 0
    /\ pendingNext = <<>>
    /\ playerName = <<>>
    /\ isScoreSaved = FALSE
    /\ leaderboard \in {Absent, Unparsable} \cup {saveLeaderboard(b) : b \in ValidBoards}
    /\ now \in 0..MaxTime
    /\ lastReset \in {<<>>} \cup {toString(t) : t \in 0..now}
    /\ quizData = QUIZ_DATA
    /\ pendingLeaderboard = 0
    /\ questionLog = NewQuestionLog(InitialGameState)
    /\ gamesStarted = 0
    /\ pveGamesStarted = 0
    /\ scoring = NoScoring
    /\ selector = NoSelection

gameVars ==
    <<gameState, activeQuestions, aiAnsweredRef, aiTriggerTimeRef, pendingNext,
      isScoreSaved, pendingLeaderboard, questionLog, pveGamesStarted, scoring,
      selector, quizData>>

\* handleSaveScore at the end of one more game, with the name typed and the
\* score reached left open
SubmitScore(name, score) ==
    /\ gamesStarted < MaxGames
    /\ playerName' = name
    /\ IF trim(name) = <<>>
       THEN UNCHANGED <<leaderboard, gamesStarted>>
       ELSE /\ leaderboard' = saveLeaderboard(updatedLeaderboard(getLeaderboard,
                                                                 name, score, now))
            /\ gamesStarted' = gamesStarted + 1
    /\ UNCHANGED <<lastReset, now, gameVars>>

\* the page is loaded: the mount effect calls checkWeeklyReset
checkWeeklyReset ==
    /\ IF resetDue(lastReset, now)
       THEN /\ leaderboard' = Absent
            /\ lastReset' = toString(now)
       ELSE UNCHANGED <<leaderboard, lastReset>>
    /\ UNCHANGED <<now, playerName, gamesStarted, gameVars>>

ClockTick ==
    /\ now < MaxTime
    /\ now' = now + 1
    /\ UNCHANGED <<leaderboard, lastReset, playerName, gamesStarted, gameVars>>

NextLeaderboard ==
    \/ \E name \in Names, score \in SubmittedScores : SubmitScore(name, score)
    \/ checkWeeklyReset
    \/ ClockTick

SpecLeaderboard == InitLeaderboard /\ [][NextLeaderboard]_vars

-----------------------------------------------------------------------------
(* Properties *)

\* the question is active: the timer effect passes its early returns
questionActive(gs) ==
    /\ gs.status = "playing"
    /\ ~(gs.isAnswerRevealed \/ gs.isPaused \/ gs.isExitConfirmOpen)

\* the step fires a pending handleNext timeout (nothing else removes one)
nextTimerFired == Len(pendingNext') < Len(pendingNext)

\* the step is the player's accepted answer
answerStep ==
    /\ ~gameState.isAnswerRevealed
    /\ gameState'.isAnswerRevealed
    /\ gameState'.selectedOptionId # NoOption

\* the step is the tick that brings timeLeft to 0
timeoutStep == gameState.timeLeft = 1 /\ gameState'.timeLeft = 0

\* the id of the correct option of the current question
currentCorrectId == activeQuestions[gameState.currentQuestionIndex + 1].correctId

\* the two results of scoring an opponent's answer from score s and combo c
opponentOutcomes(s, c) == {<<s + 100 + 25 * c, c + 1>>, <<s - 50, 0>>}

\* C1: a pending post-reveal advance that fires after the session was reset
\* (confirm-exit, restart, start of a new game) leaves the session state as it is.
C1_StaleAdvanceIsNoOp ==
    [][(pendingNext # <<>> /\ Head(pendingNext).stale /\ nextTimerFired)
          => gameState' = gameState]_vars

\* C2: in pve mode the opponent's score and combo are updated by at most one
\* opponent answer between entering a question and advancing past it.
C2_OpponentAnswersAtMostOnce ==
    gameState.gameMode = "pve" => questionLog.aiAnswers <= 1

\* C2 case: the opponent's trigger fired, then the player answered the question.
C2_Witness ==
    /\ gameState.status = "playing"
    /\ gameState.gameMode = "pve"
    /\ gameState.isAnswerRevealed
    /\ gameState.selectedOptionId # NoOption
    /\ gameState.timeLeft > 0
    /\ 2 * gameState.timeLeft <= aiTriggerTimeRef
    /\ questionLog.aiAnswers = 1

\* C3: in pve mode, whenever the answer of the current question is revealed the
\* opponent has answered it: its one answer is applied to computerScore and
\* computerConsecutiveCorrect no later than the update that reveals the answer.
C3_RevealedImpliesOpponentAnswered ==
    (gameState.status = "playing" /\ gameState.gameMode = "pve"
        /\ gameState.isAnswerRevealed)
    => /\ aiAnsweredRef
       /\ questionLog.aiAnswers = 1
       /\ <<gameState.computerScore, gameState.computerConsecutiveCorrect>>
             \in opponentOutcomes(questionLog.startComputerScore,
                                  questionLog.startComputerConsecutive)

\* C3 case: the player answered while the opponent's trigger had not fired yet.
C3_Witness ==
    /\ gameState.status = "playing"
    /\ gameState.gameMode = "pve"
    /\ gameState.isAnswerRevealed
    /\ gameState.selectedOptionId # NoOption
    /\ 2 * gameState.timeLeft > aiTriggerTimeRef
    /\ questionLog.aiAnswers = 1
    /\ gameState.computerScore # questionLog.startComputerScore

C5_CorrectWithoutHint ==
    (scoring.called /\ scoring.isCorrect /\ ~scoring.isHintUsed)
    => scoring.result = [score |-> scoring.currentScore + 100
                                      + 25 * scoring.currentConsecutive,
                         consecutive |-> scoring.currentConsecutive + 1]

\* C5 case: a correct answer without hint scored from a negative score and a streak.
C5_Witness ==
    /\ scoring.called
    /\ scoring.isCorrect
    /\ ~scoring.isHintUsed
    /\ scoring.currentScore < 0
    /\ scoring.currentConsecutive > 0

\* C6: for every score, every combo and either hint value the scoring of an
\* incorrect answer is score - 50 with combo 0; and whenever the player selects
\* an incorrect option the player's score falls by exactly 50 (no floor at
\* zero) and consecutiveCorrect becomes 0.
C6_IncorrectAnswer ==
    [][/\ \A s \in ScoreInputs, c \in ComboInputs, h \in BOOLEAN :
             calculateNewScoreState(s, c, FALSE, h)
                = [score |-> s - 50, consecutive |-> 0]
       /\ (answerStep /\ gameState'.selectedOptionId # currentCorrectId)
             => /\ gameState'.score = gameState.score - 50
                /\ gameState'.consecutiveCorrect = 0]_vars

\* C6 case: an incorrect option selected when the score was negative already.
C6_Witness ==
    /\ gameState.status = "playing"
    /\ gameState.isAnswerRevealed
    /\ gameState.selectedOptionId # NoOption
    /\ gameState.selectedOptionId # currentCorrectId
    /\ ~gameState.isHintActive
    /\ questionLog.startScore < 0
    /\ gameState.score = questionLog.startScore - 50

\* C7: on a question where the player took the hint and then selected the
\* correct option, the revealed score is the score at the start of the question
\* minus 100 and consecutiveCorrect is 0.
C7_HintThenCorrect ==
    (/\ gameState.status = "playing"
     /\ gameState.isAnswerRevealed
     /\ gameState.isHintActive
     /\ gameState.currentQuestionIndex + 1 \in DOMAIN activeQuestions
     /\ gameState.selectedOptionId = currentCorrectId)
    => /\ gameState.score = questionLog.startScore - 100
       /\ gameState.consecutiveCorrect = 0

\* C7 case: hint and correct answer on a question entered with a streak.
C7_Witness ==
    /\ gameState.status = "playing"
    /\ gameState.isAnswerRevealed
    /\ gameState.isHintActive
    /\ gameState.currentQuestionIndex = 1
    /\ gameState.selectedOptionId = currentCorrectId
    /\ questionLog.startScore = 100

\* C8: an accepted hint request subtracts exactly 100 from the player's score,
\* sets isHintActive and changes no other field of the session state.
C8_HintFrame ==
    [][(~gameState.isHintActive /\ gameState'.isHintActive)
          => gameState' = [gameState EXCEPT !.score = gameState.score - 100,
                                            !.isHintActive = TRUE]]_vars

\* C8 case: the hint taken on a question entered with a negative score and
\* after the opponent answered.
C8_Witness ==
    /\ gameState.status = "playing"
    /\ gameState.gameMode = "pve"
    /\ gameState.isHintActive
    /\ ~gameState.isAnswerRevealed
    /\ questionLog.startScore < 0
    /\ gameState.score = questionLog.startScore - 100
    /\ questionLog.aiAnswers = 1

\* the step starts or restarts a game, or advances to the next question
advanceOrStart ==
    \/ gameState'.currentQuestionIndex = gameState.currentQuestionIndex + 1
    \/ gameState.status # "playing" /\ gameState'.status = "playing"
    \/ gameState.status = "finished" /\ gameState'.status = "start"

\* C9: between entering a question and the next advance at most one hint
\* deduction is applied; no deduction is applied from a state where
\* isHintActive, isAnswerRevealed, isPaused or isExitConfirmOpen holds; and
\* isHintActive is cleared only by an advance or a game (re)start.
C9_OneHintPerQuestion ==
    [][/\ questionLog'.hints <= 1
       /\ (gameState'.score = gameState.score - 100 /\ gameState'.isHintActive
              /\ gameState'.currentQuestionIndex = gameState.currentQuestionIndex)
             => ~hintBlocked(gameState)
       /\ (hintBlocked(gameState) /\ ~advanceOrStart)
             => questionLog'.hints = questionLog.hints
       /\ (gameState.isHintActive /\ ~gameState'.isHintActive)
             => advanceOrStart]_vars

\* C9 case: the hint taken on the second question after it was taken on the first.
C9_Witness ==
    /\ gameState.status = "playing"
    /\ gameState.currentQuestionIndex = 1
    /\ gameState.isHintActive
    /\ questionLog.hints = 1
    /\ questionLog.startScore = 0 - 100

\* C10: when timeLeft reaches 0 on an active question the timeout resolution is
\* applied exactly once: the score falls by exactly 50, consecutiveCorrect
\* becomes 0, isAnswerRevealed becomes true and selectedOptionId stays null.
C10_TimeoutOnce ==
    [][/\ questionLog'.timeouts <= 1
       /\ timeoutStep
             => /\ questionActive(gameState)
                /\ questionLog'.timeouts = 1
                /\ gameState'.score = gameState.score - 50
                /\ gameState'.consecutiveCorrect = 0
                /\ gameState'.isAnswerRevealed
                /\ gameState'.selectedOptionId = NoOption
       /\ (gameState'.status = "playing" /\ gameState'.timeLeft = 0)
             => gameState'.isAnswerRevealed]_vars

\* C10 case: a question entered with a streak timed out.
C10_Witness ==
    /\ gameState.status = "playing"
    /\ gameState.isAnswerRevealed
    /\ gameState.timeLeft = 0
    /\ gameState.selectedOptionId = NoOption
    /\ questionLog.timeouts = 1
    /\ questionLog.startScore = 100
    /\ gameState.score = 50
    /\ gameState.consecutiveCorrect = 0

\* the four scores of the session
scores(gs) ==
    <<gs.score, gs.consecutiveCorrect, gs.computerScore, gs.computerConsecutiveCorrect>>

\* C11: while the answer of a question is revealed no scoring happens: every
\* step that starts and ends with isAnswerRevealed (no advance, no reset in
\* between) leaves score, consecutiveCorrect, computerScore and
\* computerConsecutiveCorrect as they are.
C11_NoScoringWhileRevealed ==
    [][(gameState.isAnswerRevealed /\ gameState'.isAnswerRevealed)
          => scores(gameState') = scores(gameState)]_vars

\* C11 case: in a pve game the exit dialog was opened while the answer of the
\* second question was revealed, after the player had answered it.
C11_Witness ==
    /\ gameState.status = "playing"
    /\ gameState.gameMode = "pve"
    /\ gameState.currentQuestionIndex = 1
    /\ gameState.isAnswerRevealed
    /\ gameState.isExitConfirmOpen
    /\ gameState.selectedOptionId # NoOption
    /\ questionLog.aiAnswers = 1

\* C12: in every state with status playing the index of the current question
\* is within the game: 0 <= currentQuestionIndex < totalQuestions.
C12_IndexWithinGame ==
    gameState.status = "playing"
    => /\ 0 <= gameState.currentQuestionIndex
       /\ gameState.currentQuestionIndex < gameState.totalQuestions

\* C12 case: the last question of the game is being played, its answer revealed.
C12_Witness ==
    /\ gameState.status = "playing"
    /\ gameState.currentQuestionIndex = gameState.totalQuestions - 1
    /\ gameState.currentQuestionIndex > 0
    /\ gameState.isAnswerRevealed
    /\ pendingNext # <<>>

\* C13: in every step timeLeft stays the same, or falls by exactly 1 (a tick on
\* an active question), or is set to GAME_DURATION_SECONDS by an advance or a
\* game (re)start; and it is always within 0..GAME_DURATION_SECONDS.
C13_TimeLeftSteps ==
    [][/\ gameState'.timeLeft \in 0..GAME_DURATION_SECONDS
       /\ \/ gameState'.timeLeft = gameState.timeLeft
          \/ /\ gameState'.timeLeft = gameState.timeLeft - 1
             /\ questionActive(gameState)
          \/ /\ gameState'.timeLeft = GAME_DURATION_SECONDS
             /\ advanceOrStart]_vars

\* C13 case: the clock of the second question, reset by the advance, has ticked.
C13_Witness ==
    /\ gameState.status = "playing"
    /\ gameState.currentQuestionIndex = 1
    /\ gameState.timeLeft = GAME_DURATION_SECONDS - 1
    /\ questionLog.timeouts = 0
    /\ ~gameState.isAnswerRevealed

\* C14: status becomes finished only by a step taken from status playing.
C14_FinishedOnlyFromPlaying ==
    [][(gameState'.status = "finished" /\ gameState.status # "finished")
          => gameState.status = "playing"]_vars

\* C15: status becomes leaderboard only by a step taken from status start or
\* finished; a game in status playing is never switched to the leaderboard.
C15_LeaderboardOnlyFromStartOrFinished ==
    [][(gameState'.status = "leaderboard" /\ gameState.status # "leaderboard")
          => gameState.status \in {"start", "finished"}]_vars

\* the scores, the position and the per-question flags of gs are the initial ones
freshSession(gs) ==
    /\ gs.score = 0
    /\ gs.computerScore = 0
    /\ gs.consecutiveCorrect = 0
    /\ gs.computerConsecutiveCorrect = 0
    /\ gs.currentQuestionIndex = 0
    /\ gs.timeLeft = GAME_DURATION_SECONDS
    /\ gs.selectedOptionId = NoOption
    /\ ~gs.isAnswerRevealed
    /\ ~gs.isPaused
    /\ ~gs.isHintActive
    /\ ~gs.isExitConfirmOpen

\* C16: right after a game start (single mode selected on the start screen, or
\* a difficulty selected on the difficulty screen), whatever the session was
\* before, status is playing, the mode is the selected one and the scores, the
\* position and the flags are the initial ones.
C16_FreshGameOnStart ==
    [][gamesStarted' # gamesStarted
          => /\ gameState'.status = "playing"
             /\ gameState'.gameMode =
                   (IF gameState.status = "start" THEN "single" ELSE "pve")
             /\ freshSession(gameState')]_vars

\* C16 case: a pve game started after a game that was left by confirm-exit
\* within 1.5 s of an answer (its post-reveal timeout is still pending).
C16_Witness ==
    /\ gamesStarted = 2
    /\ gameState.status = "playing"
    /\ gameState.gameMode = "pve"
    /\ freshSession(gameState)
    /\ pendingNext # <<>>
    /\ Head(pendingNext).stale

\* C17: the step that confirms the exit leaves status start, the dialog closed,
\* no question set, and the scores, the position and the flags at their
\* initial values.
C17_ConfirmExitResetsAll ==
    [][(gameState.status = "playing" /\ gameState.isExitConfirmOpen
           /\ gameState'.status = "start")
          => /\ activeQuestions' = <<>>
             /\ freshSession(gameState')]_vars

\* the score of n correct answers in a row without hint, from score 0 and no
\* streak: the sum over k = 0..n-1 of 100 + 25k
RECURSIVE perfectScore(_)
perfectScore(n) ==
    IF n = 0 THEN 0 ELSE perfectScore(n - 1) + 100 + 25 * (n - 1)

\* C18: a single-player game in which every question was answered correctly
\* without hint (so none timed out) is finished with score
\* perfectScore(totalQuestions) and consecutiveCorrect = totalQuestions; for the
\* program's 20 questions that score is 6750.
C18_PerfectGameScore ==
    /\ perfectScore(20) = 6750
    /\ (/\ gameState.status = "finished"
        /\ gameState.gameMode = "single"
        /\ questionLog.correctNoHint = gameState.totalQuestions)
       => /\ gameState.score = perfectScore(gameState.totalQuestions)
          /\ gameState.consecutiveCorrect = gameState.totalQuestions

\* C18 case: a single-player game finished with every question answered
\* correctly without hint, the last one after a tick of its clock.
C18_Witness ==
    /\ gameState.status = "finished"
    /\ gameState.gameMode = "single"
    /\ questionLog.correctNoHint = gameState.totalQuestions
    /\ questionLog.hints = 0
    /\ questionLog.timeouts = 0
    /\ gameState.timeLeft < GAME_DURATION_SECONDS

\* the player's score and streak after a step, the opponent's answer left aside:
\* scored by the player's own answer, cut by the timeout, or left alone
playerAfterStep ==
    IF answerStep
    THEN LET new == calculateNewScoreState(gameState.score,
                                           gameState.consecutiveCorrect,
                                           gameState'.selectedOptionId = currentCorrectId,
                                           gameState.isHintActive)
         IN <<new.score, new.consecutive>>
    ELSE IF timeoutStep
    THEN <<gameState.score - 50, 0>>
    ELSE <<gameState.score, gameState.consecutiveCorrect>>

\* C19: every answer of the opponent (triggered, forced by the player's answer
\* or forced by the timeout) takes the opponent from (s, c) to
\* (s + 100 + 25c, c + 1) or to (s - 50, 0), the un-hinted arithmetic of the
\* scoring function, and does not touch the player's score and streak.
C19_OpponentScoredLikePlayer ==
    [][questionLog'.aiAnswers = questionLog.aiAnswers + 1
          => /\ <<gameState'.computerScore, gameState'.computerConsecutiveCorrect>>
                   \in {<<calculateNewScoreState(gameState.computerScore,
                              gameState.computerConsecutiveCorrect, ok, FALSE).score,
                           calculateNewScoreState(gameState.computerScore,
                              gameState.computerConsecutiveCorrect, ok, FALSE).consecutive>> :
                         ok \in BOOLEAN}
             /\ <<gameState'.computerScore, gameState'.computerConsecutiveCorrect>>
                   \in opponentOutcomes(gameState.computerScore,
                                        gameState.computerConsecutiveCorrect)
             /\ <<gameState'.score, gameState'.consecutiveCorrect>> = playerAfterStep]_vars

\* C19 case: on the second question the opponent's trigger fired before the
\* player answered, and the answer extended a streak of the opponent.
C19_Witness ==
    /\ gameState.status = "playing"
    /\ gameState.gameMode = "pve"
    /\ gameState.currentQuestionIndex = 1
    /\ ~gameState.isAnswerRevealed
    /\ questionLog.aiAnswers = 1
    /\ questionLog.startComputerConsecutive = 1
    /\ gameState.computerConsecutiveCorrect = 2
    /\ gameState.computerScore = questionLog.startComputerScore + 125

\* C20: for every bank and every outcome of the shuffles getWeightedQuestions
\* returns at most QUESTIONS_PER_GAME questions, no two of the same country.
C20_SelectorBoundedAndDistinct ==
    selector.called
    => /\ Len(selector.result) <= QUESTIONS_PER_GAME
       /\ \A i, j \in DOMAIN selector.result :
             i # j => selector.result[i].country # selector.result[j].country

\* C20 case: the selector applied to a full bank with more countries than a game
\* has questions, two of its questions sharing a country.
C20_Witness ==
    /\ selector.called
    /\ Len(selector.bank) = MaxBank
    /\ Cardinality({selector.bank[i].country : i \in DOMAIN selector.bank})
          > QUESTIONS_PER_GAME
    /\ \E i, j \in DOMAIN selector.bank :
          i # j /\ selector.bank[i].country = selector.bank[j].country
    /\ Len(selector.result) = QUESTIONS_PER_GAME

\* helpers of the selector claims
eastAsiaIn(qs) == {i \in DOMAIN qs : qs[i].region = "EastAsia"}

countriesOf(qs, idx) == {qs[i].country : i \in idx}

minOf(a, b) == IF a <= b THEN a ELSE b

C22_FullWhenEnoughCountries ==
    (/\ selector.called
     /\ Cardinality(countriesOf(selector.bank, DOMAIN selector.bank))
           >= QUESTIONS_PER_GAME)
    => Len(selector.result) = QUESTIONS_PER_GAME

\* helpers of the leaderboard claims
sortedDescending(entries) ==
    \A i, j \in DOMAIN entries : i < j => entries[i].score >= entries[j].score

removeAt(entries, i) == SubSeq(entries, 1, i - 1) \o SubSeq(entries, i + 1, Len(entries))

ProbedScores == {-50, 0, 25, 100, 125, 225, 250}

\* 00:00 of the latest Monday that has begun at time
mostRecentMonday(time) ==
    CHOOSE b \in (time - 7 * UnitsPerDay + 1)..time :
        b % UnitsPerDay = 0 /\ (b \div UnitsPerDay) % 7 = 1

\* C23: from an empty or a valid stored list, after any sequence of submissions
\* and weekly-reset checks, the stored leaderboard holds at most
\* MAX_LEADERBOARD_ENTRIES entries and is sorted by score, highest first.
C23_LeaderboardCappedAndSorted ==
    /\ Len(getLeaderboard) <= MAX_LEADERBOARD_ENTRIES
    /\ sortedDescending(getLeaderboard)

\* C23 case: two scores were submitted to a list that was full, the higher one
\* is in the list, which still holds MAX_LEADERBOARD_ENTRIES entries.
C23_Witness ==
    /\ gamesStarted = 2
    /\ Len(getLeaderboard) = MAX_LEADERBOARD_ENTRIES
    /\ \E i \in DOMAIN getLeaderboard :
          /\ getLeaderboard[i].name = <<"A">>
          /\ i < MAX_LEADERBOARD_ENTRIES
          /\ getLeaderboard[i + 1].score < getLeaderboard[i].score
    /\ getLeaderboard[MAX_LEADERBOARD_ENTRIES].name # <<"A">>

\* C24: isHighScore is false for every score <= 0; for a positive score it is
\* true when the list holds fewer than MAX_LEADERBOARD_ENTRIES entries, and on
\* a full list exactly when the score is greater than the score of the last entry.
C24_IsHighScore ==
    \A score \in ProbedScores :
        isHighScore(score)
            <=> /\ score > 0
                /\ \/ Len(getLeaderboard) < MAX_LEADERBOARD_ENTRIES
                   \/ /\ Len(getLeaderboard) = MAX_LEADERBOARD_ENTRIES
                      /\ score > getLeaderboard[MAX_LEADERBOARD_ENTRIES].score

\* C24 case: a full list whose last entry has score 100: 100 is no high score,
\* 125 is one.
C24_Witness ==
    /\ Len(getLeaderboard) = MAX_LEADERBOARD_ENTRIES
    /\ getLeaderboard[MAX_LEADERBOARD_ENTRIES].score = 100
    /\ ~isHighScore(100)
    /\ isHighScore(125)
    /\ ~isHighScore(0)

\* C25: on a sorted list of MAX_LEADERBOARD_ENTRIES entries, submitting a score
\* lower than or equal to the last entry's leaves the list as it is (content and
\* order); submitting a greater score puts the new entry at its sorted place,
\* behind the entries of its score, and drops the previous last entry; the list
\* holds MAX_LEADERBOARD_ENTRIES entries afterwards.
C25_SubmitToFullList ==
    [][\A name \in Names, score \in SubmittedScores :
          (/\ SubmitScore(name, score)
           /\ trim(name) # <<>>
           /\ Len(getLeaderboard) = MAX_LEADERBOARD_ENTRIES
           /\ sortedDescending(getLeaderboard))
          => /\ Len(getLeaderboard') = MAX_LEADERBOARD_ENTRIES
             /\ IF score <= getLeaderboard[MAX_LEADERBOARD_ENTRIES].score
                THEN getLeaderboard' = getLeaderboard
                ELSE \E i \in 1..MAX_LEADERBOARD_ENTRIES :
                        /\ getLeaderboard'[i] = [name |-> trim(name),
                                                 score |-> score,
                                                 timestamp |-> now]
                        /\ removeAt(getLeaderboard', i)
                              = SubSeq(getLeaderboard, 1, MAX_LEADERBOARD_ENTRIES - 1)
                        /\ \A j \in 1..(i - 1) : getLeaderboard'[j].score >= score
                        /\ \A j \in (i + 1)..MAX_LEADERBOARD_ENTRIES :
                              getLeaderboard'[j].score < score]_vars

\* C25 case: 225 was submitted to a full list ending in entries of score 100:
\* the new entry is in, the ninth entry of before is the last one now.
C25_Witness ==
    /\ gamesStarted = 1
    /\ Len(getLeaderboard) = MAX_LEADERBOARD_ENTRIES
    /\ \E i \in 1..(MAX_LEADERBOARD_ENTRIES - 1) :
          /\ getLeaderboard[i].name = <<"A">>
          /\ getLeaderboard[i].score = 225
    /\ getLeaderboard[MAX_LEADERBOARD_ENTRIES] =
          [name |-> toString(MAX_LEADERBOARD_ENTRIES - 1), score |-> 100, timestamp |-> 0]

\* C26: checkWeeklyReset removes all entries and sets the marker to the current
\* time when the marker is absent or earlier than the most recent Monday 00:00;
\* with a marker at or after that boundary it leaves entries and marker alone.
C26_WeeklyReset ==
    [][checkWeeklyReset
       => IF lastReset = <<>> \/ parseInt(lastReset) < mostRecentMonday(now)
          THEN /\ getLeaderboard' = <<>>
               /\ leaderboard' = Absent
               /\ parseInt(lastReset') = now
          ELSE UNCHANGED <<leaderboard, lastReset>>]_vars

\* C26 case: a score was submitted before the Monday boundary and the page was
\* loaded after it: the list is gone and the marker is the time of the load.
C26_Witness ==
    /\ gamesStarted = 1
    /\ leaderboard = Absent
    /\ lastReset = toString(now)
    /\ now >= mostRecentMonday(MaxTime)
    /\ mostRecentMonday(MaxTime) > 0

\* C27: with the stored value absent or unparsable, loading yields the empty
\* list, isHighScore answers as for an empty list, and a submission stores a
\* list of exactly the one new entry.
C27_CorruptStoreIsEmpty ==
    /\ [](leaderboard.kind # "json"
          => /\ getLeaderboard = <<>>
             /\ \A score \in ProbedScores : isHighScore(score) <=> score > 0)
    /\ [][\A name \in Names, score \in SubmittedScores :
             (/\ leaderboard.kind # "json"
              /\ SubmitScore(name, score)
              /\ trim(name) # <<>>)
             => leaderboard' = saveLeaderboard(<<[name |-> trim(name),
                                                  score |-> score,
                                                  timestamp |-> now]>>)]_vars

\* C27 case: the stored value is unparsable and a game may still be saved.
C27_Witness ==
    /\ leaderboard = Unparsable
    /\ getLeaderboard = <<>>
    /\ isHighScore(25)
    /\ gamesStarted < MaxGames

\* the current index has no question in the active set
questionMissing(gs) ==
    gs.status = "playing" /\ gs.currentQuestionIndex + 1 \notin DOMAIN activeQuestions

\* C28: while the game is playing and the current index has no question in the
\* active set, no tick and no input (short of leaving the game through the exit
\* dialog) changes currentQuestionIndex, status or a score.
C28_MissingQuestionHalts ==
    [][(questionMissing(gameState) /\ ~handleConfirmExit)
       => /\ gameState'.currentQuestionIndex = gameState.currentQuestionIndex
          /\ gameState'.status = gameState.status
          /\ scores(gameState') = scores(gameState)]_vars

\* C29: when the selector returns fewer than QUESTIONS_PER_GAME questions,
\* totalQuestions of the game is the number of questions selected, and the
\* current index of a game being played designates one of them.
C29_TotalIsSelected ==
    gameState.status = "playing"
    => /\ gameState.totalQuestions = Len(activeQuestions)
       /\ gameState.currentQuestionIndex + 1 \in DOMAIN activeQuestions

\* C30: an invalid input leaves the whole state as it is: selecting an option
\* while the answer is revealed, the game is paused or the exit dialog is open;
\* toggling the pause while the answer is revealed or the exit dialog is open;
\* requesting the exit while status is not playing.
C30_InvalidInputsIgnored ==
    [][(\/ /\ \E id \in OptionIds : handleSelectOption(id)
           /\ \/ gameState.isAnswerRevealed
              \/ gameState.isPaused
              \/ gameState.isExitConfirmOpen
        \/ /\ handlePause
           /\ gameState.isAnswerRevealed \/ gameState.isExitConfirmOpen
        \/ /\ handleExitRequest
           /\ gameState.status # "playing")
       => UNCHANGED vars]_vars

\* C30 case: a question was paused after a tick and the exit dialog opened over
\* it: an option click, Space and a further exit request are all invalid here.
C30_Witness ==
    /\ playingScreen
    /\ withinPlayedGames
    /\ gameState.isPaused
    /\ gameState.isExitConfirmOpen
    /\ ~gameState.isAnswerRevealed
    /\ gameState.timeLeft < GAME_DURATION_SECONDS

\* the step increments currentQuestionIndex or moves playing to finished
advanceStep ==
    \/ gameState'.currentQuestionIndex = gameState.currentQuestionIndex + 1
    \/ gameState.status = "playing" /\ gameState'.status = "finished"

\* C31: every step that increments currentQuestionIndex or moves playing to
\* finished starts in a playing state whose answer is revealed and whose reveal
\* belongs to the game being played (the timeout that fires is not a leftover of
\* a game that was reset).
C31_AdvanceOnlyFromRevealed ==
    [][advanceStep
       => /\ gameState.status = "playing"
          /\ gameState.isAnswerRevealed
          /\ ~Head(pendingNext).stale]_vars

\* C32: with the timeouts being run, every playing state whose answer is
\* revealed is followed by the next question (index + 1, not revealed) or by the
\* end of the game, unless the game is left first (exit, or status otherwise no
\* longer playing); an open exit dialog does not hold the advance back.
C32_RevealLeadsToAdvance ==
    \A i \in 0..(QUESTIONS_PER_GAME - 1) :
        (/\ gameState.status = "playing"
         /\ gameState.isAnswerRevealed
         /\ gameState.currentQuestionIndex = i)
        ~> (\/ gameState.status # "playing"
            \/ /\ gameState.currentQuestionIndex = i + 1
               /\ ~gameState.isAnswerRevealed)

\* C32 case: the exit dialog was opened over a revealed answer and the advance
\* took place under it.
C32_Witness ==
    /\ gameState.status = "playing"
    /\ gamesStarted = 1
    /\ gameState.currentQuestionIndex = 1
    /\ gameState.isExitConfirmOpen
    /\ ~gameState.isAnswerRevealed
    /\ gameState.timeLeft = GAME_DURATION_SECONDS
    /\ pendingNext = <<>>

\* C33: an advance that does not finish the game increments
\* currentQuestionIndex by 1, sets timeLeft to GAME_DURATION_SECONDS,
\* selectedOptionId to null and isAnswerRevealed, isPaused, isHintActive to
\* false, and leaves the scores, the combo counters, gameMode, difficulty and
\* totalQuestions as they are; an advance from the last index changes status
\* (to finished) and nothing else.
C33_AdvanceFrame ==
    [][nextTimerFired
       => IF gameState.currentQuestionIndex + 1 >= gameState.totalQuestions
          THEN gameState' = [gameState EXCEPT !.status = "finished"]
          ELSE /\ gameState'.currentQuestionIndex = gameState.currentQuestionIndex + 1
               /\ gameState'.timeLeft = GAME_DURATION_SECONDS
               /\ gameState'.selectedOptionId = NoOption
               /\ ~gameState'.isAnswerRevealed
               /\ ~gameState'.isPaused
               /\ ~gameState'.isHintActive
               /\ scores(gameState') = scores(gameState)
               /\ gameState'.gameMode = gameState.gameMode
               /\ gameState'.difficulty = gameState.difficulty
               /\ gameState'.totalQuestions = gameState.totalQuestions
               /\ gameState'.status = gameState.status]_vars

\* C33 case: the first question was answered correctly after a tick, and the
\* advance to the second one kept score and streak.
C33_Witness ==
    /\ gameState.status = "playing"
    /\ gamesStarted = 1
    /\ gameState.currentQuestionIndex = 1
    /\ gameState.timeLeft = GAME_DURATION_SECONDS
    /\ gameState.selectedOptionId = NoOption
    /\ gameState.score = 100
    /\ gameState.consecutiveCorrect = 1
    /\ questionLog.hints = 0
    /\ pendingNext = <<>>

\* the fields of a question that a pause or the exit dialog is to freeze
frozenFields(gs) ==
    <<gs.timeLeft, scores(gs), gs.selectedOptionId, gs.isAnswerRevealed,
      gs.currentQuestionIndex>>

\* C34: while isPaused is true and the game is not left, no step changes
\* timeLeft, a score, a combo counter, selectedOptionId, isAnswerRevealed or
\* currentQuestionIndex.
C34_PausedIsFrozen ==
    [][(/\ gameState.status = "playing"
        /\ gameState.isPaused
        /\ gameState'.status = "playing")
       => frozenFields(gameState') = frozenFields(gameState)]_vars

\* C35, as stated: while the exit dialog is open and the exit is not confirmed,
\* no step changes timeLeft, isPaused, a score, a combo counter or
\* currentQuestionIndex, and cancelling changes nothing but the flag.
C35_ExitDialogSuspends ==
    [][(/\ gameState.status = "playing"
        /\ gameState.isExitConfirmOpen
        /\ ~handleConfirmExit)
       => /\ <<gameState'.timeLeft, gameState'.isPaused, scores(gameState'),
               gameState'.currentQuestionIndex>>
             = <<gameState.timeLeft, gameState.isPaused, scores(gameState),
                 gameState.currentQuestionIndex>>
          /\ handleCancelExit
                => gameState' = [gameState EXCEPT !.isExitConfirmOpen = FALSE]]_vars

\* C35, as the code has it: while the exit dialog is open and the exit is not
\* confirmed, tick, pause, hint, answer and opponent are suspended: no step but
\* the firing of a pending post-reveal timeout changes timeLeft, isPaused, a
\* score, a combo counter or currentQuestionIndex, and cancelling changes
\* nothing but the flag.
C35_ExitDialogSuspendsButAdvance ==
    [][(/\ gameState.status = "playing"
        /\ gameState.isExitConfirmOpen
        /\ ~handleConfirmExit
        /\ ~nextTimerFired)
       => /\ <<gameState'.timeLeft, gameState'.isPaused, scores(gameState'),
               gameState'.currentQuestionIndex>>
             = <<gameState.timeLeft, gameState.isPaused, scores(gameState),
                 gameState.currentQuestionIndex>>
          /\ handleCancelExit
                => gameState' = [gameState EXCEPT !.isExitConfirmOpen = FALSE]]_vars

\* C35 case: the exit dialog is open over a running question of a pve game
\* whose opponent has still to answer, and the hint is still to be had.
C35_Witness ==
    /\ gameState.status = "playing"
    /\ gameState.gameMode = "pve"
    /\ gameState.isExitConfirmOpen
    /\ ~gameState.isAnswerRevealed
    /\ ~gameState.isPaused
    /\ ~gameState.isHintActive
    /\ ~aiAnsweredRef
    /\ gameState.timeLeft < GAME_DURATION_SECONDS

\* C36: isPaused and isAnswerRevealed are never both true.
C36_NeverPausedAndRevealed ==
    ~(gameState.isPaused /\ gameState.isAnswerRevealed)

\* C36 case: a question paused one second before its timeout (no reveal can
\* come while it stays paused), in a pve game whose opponent has not answered.
C36_Witness ==
    /\ gameState.status = "playing"
    /\ gameState.gameMode = "pve"
    /\ gameState.isPaused
    /\ ~gameState.isAnswerRevealed
    /\ gameState.timeLeft = 1
    /\ questionLog.aiAnswers = 1

\* C37: in a pve game of difficulty d the trigger is GAME_DURATION_SECONDS minus
\* a delay within minDelay(d)..maxDelay(d); an opponent that has answered a
\* question whose answer is not revealed (so neither the player's answer nor the
\* timeout forced it) did so at timeLeft <= trigger, hence never while timeLeft
\* > GAME_DURATION_SECONDS - minDelay(d); and entering a new question re-arms the
\* opponent with a trigger drawn for that question. (Times in half seconds.)
C37_OpponentWaitsForTrigger ==
    /\ [](gameState.status = "playing" /\ gameState.gameMode = "pve"
          => /\ 2 * GAME_DURATION_SECONDS - aiTriggerTimeRef
                   >= AI_CONFIG[gameState.difficulty].minDelay
             /\ 2 * GAME_DURATION_SECONDS - aiTriggerTimeRef
                   <= AI_CONFIG[gameState.difficulty].maxDelay
             /\ (~gameState.isAnswerRevealed /\ questionLog.aiAnswers > 0)
                   => /\ 2 * gameState.timeLeft <= aiTriggerTimeRef
                      /\ 2 * gameState.timeLeft
                            <= 2 * GAME_DURATION_SECONDS
                                  - AI_CONFIG[gameState.difficulty].minDelay)
    /\ [][(/\ gameState'.currentQuestionIndex # gameState.currentQuestionIndex
           /\ gameState'.status = "playing"
           /\ gameState'.gameMode = "pve")
          => /\ ~aiAnsweredRef'
             /\ questionLog'.aiAnswers = 0
             /\ 2 * gameState'.timeLeft > aiTriggerTimeRef']_vars

\* C37 case: on the second question of an expert game the opponent answered on
\* its own at the earliest moment, timeLeft = GAME_DURATION_SECONDS - minDelay.
C37_Witness ==
    /\ gameState.status = "playing"
    /\ gameState.gameMode = "pve"
    /\ gameState.difficulty = 4
    /\ gameState.currentQuestionIndex = 1
    /\ ~gameState.isAnswerRevealed
    /\ questionLog.aiAnswers = 1
    /\ 2 * gameState.timeLeft = 2 * GAME_DURATION_SECONDS - AI_CONFIG[4].minDelay
    /\ 2 * gameState.timeLeft = aiTriggerTimeRef

\* the game is being played or is over
inGame == gameState.status \in {"playing", "finished"}

\* C38, as stated: with n the number of questions of the game the player has
\* resolved, 0 <= consecutiveCorrect <= n and -150 * (n + 1) <= score <=
\* perfectScore(n); in pve -50 * n <= computerScore <= perfectScore(n); in a
\* single-player game computerScore = computerConsecutiveCorrect = 0.
C38_ScoreBounds ==
    inGame
    => LET n == questionLog.resolved
       IN /\ 0 <= gameState.consecutiveCorrect
          /\ gameState.consecutiveCorrect <= n
          /\ -150 * (n + 1) <= gameState.score
          /\ gameState.score <= perfectScore(n)
          /\ gameState.gameMode = "pve"
                => /\ -50 * n <= gameState.computerScore
                   /\ gameState.computerScore <= perfectScore(n)
          /\ gameState.gameMode = "single"
                => /\ gameState.computerScore = 0
                   /\ gameState.computerConsecutiveCorrect = 0

\* C38, as the code has it: the opponent's bounds go by the number m of
\* questions the opponent has answered (it may answer before the player does),
\* and the player's lower bound by the number of questions entered,
\* currentQuestionIndex + 1 (a hint is paid on entering, before any resolution).
C38_ScoreBoundsByAnswers ==
    inGame
    => LET n == questionLog.resolved
           m == questionLog.aiResolved
       IN /\ 0 <= gameState.consecutiveCorrect
          /\ gameState.consecutiveCorrect <= n
          /\ -150 * (gameState.currentQuestionIndex + 1) <= gameState.score
          /\ gameState.score <= perfectScore(n)
          /\ gameState.gameMode = "pve"
                => /\ -50 * m <= gameState.computerScore
                   /\ gameState.computerScore <= perfectScore(m)
                   /\ 0 <= gameState.computerConsecutiveCorrect
                   /\ gameState.computerConsecutiveCorrect <= m
                   /\ m <= gameState.currentQuestionIndex + 1
          /\ gameState.gameMode = "single"
                => /\ gameState.computerScore = 0
                   /\ gameState.computerConsecutiveCorrect = 0

\* C38 case: a pve game in which the player answered both questions correctly
\* without hint and the opponent answered both wrongly: the upper bound of the
\* one and the lower bound of the other are met.
C38_Witness ==
    /\ inGame
    /\ gameState.gameMode = "pve"
    /\ questionLog.resolved = 2
    /\ questionLog.aiResolved = 2
    /\ gameState.score = perfectScore(2)
    /\ gameState.consecutiveCorrect = 2
    /\ gameState.computerScore = -100


\* the entry handleSaveScore makes of the name typed and the score of the game
newEntry ==
    [name |-> slice(trim(playerName), MAX_NAME_LENGTH),
     score |-> gameState.score,
     timestamp |-> now]

\* C39: starting from an empty leaderboard, every entry persisted has a score
\* above 0 and a name that is not empty and at most MAX_NAME_LENGTH long; the
\* list changes only on the finished screen of a single-mode game whose score
\* was not yet saved, by the one entry of that game, which marks the score as
\* saved; the mark is taken back only where a game starts or the state is
\* reset, so no more entries are persisted than games were started.
C39_EntriesFromFinishedSingleGames ==
    /\ [](/\ \A i \in DOMAIN getLeaderboard :
                /\ getLeaderboard[i].score > 0
                /\ getLeaderboard[i].name # <<>>
                /\ Len(getLeaderboard[i].name) <= MAX_NAME_LENGTH
          /\ Len(getLeaderboard) <= gamesStarted)
    /\ [][/\ leaderboard' # leaderboard =>
                /\ gameState.status = "finished"
                /\ gameState.gameMode = "single"
                /\ isHighScore(gameState.score)
                /\ ~isScoreSaved
                /\ isScoreSaved'
                /\ Len(getLeaderboard') = Len(getLeaderboard) + 1
                /\ \E i \in DOMAIN getLeaderboard' :
                      /\ getLeaderboard'[i] = newEntry
                      /\ removeAt(getLeaderboard', i) = getLeaderboard
          /\ (isScoreSaved /\ ~isScoreSaved') =>
                \/ gamesStarted' = gamesStarted + 1
                \/ gameState' = InitialGameState]_vars

\* C39 witness: the entry of a finished single-mode game is on the list, under
\* the trimmed name, and the score counts as saved
C39_Witness ==
    /\ gameState.status = "finished"
    /\ gameState.gameMode = "single"
    /\ isScoreSaved
    /\ gameState.score > 0
    /\ getLeaderboard =
          <<[name |-> <<"A">>, score |-> gameState.score, timestamp |-> now]>>


\* the times from time on that lie before the next Monday 00:00
restOfWeek(time) ==
    {t \in time..(time + 7 * UnitsPerDay) : mostRecentMonday(t) = mostRecentMonday(time)}

\* C40: checkWeeklyReset is idempotent within a week: a check leaves a marker
\* with which no check is due at the same time; a marker with which no check is
\* due now calls for none at any later time before the next Monday 00:00; and
\* while none is due, no step changes the marker or wipes the entries, so a
\* check changes something only when the reset was due, and the entries
\* submitted after a reset stay.
C40_CheckIsIdempotent ==
    /\ [](~resetDue(lastReset, now)
          => \A t \in restOfWeek(now) : ~resetDue(lastReset, t))
    /\ [][/\ checkWeeklyReset => ~resetDue(lastReset', now')
          /\ ~resetDue(lastReset, now) /\ now' \in restOfWeek(now)
                => /\ lastReset' = lastReset
                   /\ \/ leaderboard' = leaderboard
                      \/ /\ ~checkWeeklyReset
                         /\ getLeaderboard' # <<>>]_vars

\* C40 case: the list was reset on or after the Monday boundary, a score was
\* submitted after that, and time has passed: a check now finds the marker in
\* the current week and leaves the entry where it is.
C40_Witness ==
    /\ lastReset # <<>>
    /\ parseInt(lastReset) >= mostRecentMonday(MaxTime)
    /\ mostRecentMonday(MaxTime) > 0
    /\ now > parseInt(lastReset)
    /\ ~resetDue(lastReset, now)
    /\ Len(getLeaderboard) = 1
    /\ getLeaderboard[1].name = <<"A">>
    /\ getLeaderboard[1].timestamp >= parseInt(lastReset)
    /\ getLeaderboard[1].timestamp < now

=============================================================================
